---- MODULE Spec2Model ----
(***************************************************************************)
(* ResnetCppHandler (examples/cpp/aot_inductor/resnet/src/                 *)
(* resnet_handler.cc): LoadModel, then one Preprocess -> Inference ->      *)
(* Postprocess cycle over a batch of requests.                             *)
(*                                                                         *)
(* The two loops (Preprocess over the requests, Postprocess over the       *)
(* entries of idx_to_req_id.second) advance one iteration per step.        *)
(* External collaborators (file system, folly::parseJson, the tokenizer,   *)
(* the AOTInductor runner) are inputs: what they return or throw is drawn  *)
(* from small sets.                                                        *)
(***************************************************************************)
EXTENDS Integers, Sequences, FiniteSets, TLC

(***************************************************************************)
(* Bounds of the model.                                                    *)
(***************************************************************************)
MaxBatch == 2
LongBatch == 257

(***************************************************************************)
(* Values the handler reads from its members.                              *)
(***************************************************************************)
max_length_ == 2
pad_id == 0
IdxBits == 8

IdxRange == 2 ^ IdxBits
MaxTokens == max_length_ + 1

VARIABLES
  pc,             \* which call of the plugin contract is running / has ended
  model_dir,      \* the two JSON files and the compiled artifact on disk
  device,         \* GetTorchDevice(load_model_request)
  mapping_json_,  \* member: parsed index_to_name.json
  config_json_,   \* member: parsed config.json
  runner,         \* the runner handle LoadModel returned
  request_batch,  \* argument of Preprocess
  next,           \* position of the Preprocess loop in request_batch
  batch_ivalue,   \* the list of tensors Preprocess builds
  idx,            \* uint8_t idx of Preprocess
  idx_first,      \* idx_to_req_id.first
  idx_second,     \* idx_to_req_id.second
  response_batch, \* request id -> InferenceResponse
  inference_out,  \* what Inference handed back
  visited         \* keys of idx_to_req_id.second Postprocess has iterated over

vars == <<pc, model_dir, device, mapping_json_, config_json_, runner,
          request_batch, next, batch_ivalue, idx, idx_first, idx_second,
          response_batch, inference_out, visited>>

(***************************************************************************)
(* JSON documents: an object is the set of its <<key, value>> members.     *)
(***************************************************************************)
JsonString(s) == [type |-> "string", text |-> s]
JsonNull == [type |-> "null", text |-> ""]

HasKey(doc, key) == \E m \in doc : m[1] = key
ValueOf(doc, key) == (CHOOSE m \in doc : m[1] = key)[2]

\* std::to_string(int) for y_hat >= 0: the decimal digits, most significant first
RECURSIVE to_string(_)
to_string(n) == IF n < 10 THEN <<n>> ELSE Append(to_string(n \div 10), n % 10)

\* Class indices the runner's rows can have as arg-max.
ArgmaxValues == {0, 10}

FullLabels == { <<to_string(0), JsonString("cat")>>,
                <<to_string(1), JsonString("dog")>>,
                <<to_string(10), JsonString("eel")>> }
PartialLabels == { <<to_string(0), JsonString("cat")>>,
                   <<to_string(1), JsonString("dog")>> }

File(readable, valid, doc) == [readable |-> readable, valid |-> valid, doc |-> doc]

IndexToNameFiles == { File(FALSE, FALSE, {}), File(TRUE, FALSE, {}),
                      File(TRUE, TRUE, FullLabels), File(TRUE, TRUE, PartialLabels) }
ConfigFiles == { File(FALSE, FALSE, {}), File(TRUE, FALSE, {}),
                 File(TRUE, TRUE, { <<"batch_size", "1">> }),
                 File(TRUE, TRUE, { <<"model_so_path", "resnet.so">> }) }

NullJson == [null |-> TRUE, doc |-> {}]
Json(doc) == [null |-> FALSE, doc |-> doc]

(***************************************************************************)
(* LoadJsonFile: "returned" with the document; "terminate" when the file   *)
(* cannot be read (throw; with no exception being handled calls            *)
(* std::terminate); "runtime_error" when folly::parseJson throws.          *)
(***************************************************************************)
LoadJsonFile(file) ==
  IF ~file.readable THEN [outcome |-> "terminate", json |-> NullJson]
  ELSE IF ~file.valid THEN [outcome |-> "runtime_error", json |-> NullJson]
  ELSE [outcome |-> "returned", json |-> Json(file.doc)]

\* GetJsonValue: the value, or throw; with no exception being handled
GetJsonValue(json, key) ==
  IF HasKey(json.doc, key)
  THEN [outcome |-> "returned", value |-> ValueOf(json.doc, key)]
  ELSE [outcome |-> "terminate", value |-> ""]

(***************************************************************************)
(* Requests.  A request's id is its position in the batch (the host gives  *)
(* every request of a batch its own id).  fault is what the collaborators  *)
(* called between lines 98 and 112 throw for this request; tokens is what  *)
(* sentence_piece_.Encode produces.                                        *)
(***************************************************************************)
RequestId(i) == i

TokSeq(n) == [k \in 1..n |-> k]
TokenSeqs == { TokSeq(n) : n \in 0..MaxTokens }
Faults == {"runtime_error", "c10_error"}

Request(params, headers, fault, tokens) ==
  [parameters |-> params, headers |-> headers, fault |-> fault, tokens |-> tokens]

RequestSpace ==
  { Request({}, {"data_type"}, "none", <<>>),
    Request({"data"}, {}, "none", <<>>),
    Request({"body"}, {"body_type"}, "none", TokSeq(1)) }
  \cup { Request({"data"}, {"data_type"}, "none", t) : t \in TokenSeqs }
  \cup { Request({"data"}, {"data_type"}, e, <<>>) : e \in Faults }

RECURSIVE SeqsUpTo(_, _)
SeqsUpTo(S, n) ==
  IF n = 0 THEN { <<>> }
  ELSE LET shorter == SeqsUpTo(S, n - 1)
       IN shorter \cup { Append(s, x) : s \in { q \in shorter : Len(q) = n - 1 }, x \in S }

\* lines 78-90: data, else body, each with its declared-type header
EmptyPayload(request) ==
  LET field == IF "data" \in request.parameters THEN "data" ELSE "body"
      header == IF "data" \in request.parameters THEN "data_type" ELSE "body_type"
  IN field \notin request.parameters \/ header \notin request.headers

(***************************************************************************)
(* Responses.  sets counts the SetResponse calls on the response.          *)
(***************************************************************************)
NewResponse == [code |-> 0, body |-> "", sets |-> 0]

SetResponse(responses, id, code, body) ==
  [responses EXCEPT ![id] = [code |-> code, body |-> body, sets |-> @.sets + 1]]

(***************************************************************************)
(* Preprocess, one request.                                                *)
(***************************************************************************)
\* lines 105-110: pad on the right up to max_length_, leave longer ones alone
PadTokens(token_ids) ==
  IF Len(token_ids) < max_length_
  THEN token_ids \o [k \in 1..(max_length_ - Len(token_ids)) |-> pad_id]
  ELSE token_ids

\* A 64-bit element, as its low and high 32-bit halves: the value lo + hi * 2^32.
Int64(lo, hi) == <<lo, hi>>

\* Mutant of FromBlob: the tensor is as long as the vector.
FromBlobOfSize(buf, n, oob) ==
  [k \in 1..Len(buf) |->
     LET lo == IF 2 * k - 1 <= Len(buf) THEN buf[2 * k - 1] ELSE oob
         hi == IF 2 * k <= Len(buf) THEN buf[2 * k] ELSE oob
     IN Int64(lo, hi)]

(***************************************************************************)
(* torch::from_blob(token_ids.data(), max_length_, kInt64): a tensor of n  *)
(* 64-bit elements over the buffer of 32-bit ints, not a copy.  Element k  *)
(* is the pair of ints 2k-1, 2k (little endian); ints past the end of the  *)
(* vector are whatever the heap holds there (oob).                         *)
(***************************************************************************)
FromBlob(buf, n, oob) ==
  [k \in 1..n |->
     LET lo == IF 2 * k - 1 <= Len(buf) THEN buf[2 * k - 1] ELSE oob
         hi == IF 2 * k <= Len(buf) THEN buf[2 * k] ELSE oob
     IN Int64(lo, hi)]

\* What the heap can hold past the end of the vector.
OobInts == {0, 9}

(***************************************************************************)
(* token_ids is destroyed at the end of the try block while the tensor     *)
(* still points into it: what the tensor reads afterwards is either the    *)
(* old content (the block was not reused) or something else.               *)
(***************************************************************************)
Garbage(n) == [k \in 1..n |-> Int64(-1, -1)]
AfterScopeExit(tensor, reused) == IF reused THEN Garbage(Len(tensor)) ELSE tensor

MapPut(map, key, value) == (key :> value) @@ map

Locals == [batch_ivalue |-> batch_ivalue, idx |-> idx, idx_second |-> idx_second,
           response_batch |-> response_batch]

\* lines 72-76
CreateResponse(s, id) ==
  [s EXCEPT !.response_batch = (id :> NewResponse) @@ s.response_batch]

\* lines 89-96
OnEmptyPayload(s, id) ==
  [s EXCEPT !.response_batch = SetResponse(@, id, 500, "Empty payload")]

\* Mutant of OnException: the slot counter moves on although no row was added.
OnExceptionSkipsSlot(s, id, fault) ==
  [s EXCEPT !.response_batch =
              SetResponse(@, id, 500,
                          IF fault = "runtime_error"
                          THEN "runtime_error, failed to load tensor"
                          ELSE "c10 error, failed to load tensor"),
            !.idx = (s.idx + 1) % IdxRange]

\* lines 114-128
OnException(s, id, fault) ==
  [s EXCEPT !.response_batch =
              SetResponse(@, id, 500,
                          IF fault = "runtime_error"
                          THEN "runtime_error, failed to load tensor"
                          ELSE "c10 error, failed to load tensor")]

\* lines 98-113, and the end of the try block
OnTokens(s, id, tokens, oob, reused) ==
  LET token_ids == PadTokens(tokens)
      tensor == FromBlob(token_ids, max_length_, oob)
  IN [s EXCEPT !.batch_ivalue = Append(@, AfterScopeExit(tensor, reused)),
               !.idx_second = MapPut(@, s.idx, id),
               !.idx = (s.idx + 1) % IdxRange]

PreprocessOne(s, id, request, oob, reused) ==
  LET created == CreateResponse(s, id)
  IN IF EmptyPayload(request) THEN OnEmptyPayload(created, id)
     ELSE IF request.fault # "none" THEN OnException(created, id, request.fault)
     ELSE OnTokens(created, id, request.tokens, oob, reused)

(***************************************************************************)
(* Inference and Postprocess helpers.                                      *)
(***************************************************************************)
NoValue == [kind |-> "none", argmax |-> <<>>]
Indeterminate == [kind |-> "indeterminate", argmax |-> <<>>]
Tensor(rows) == [kind |-> "tensor", argmax |-> rows]

\* Mutant of InferenceCatch: the handler marks every request in flight as failed.
InferenceCatchMarksFailed(responses, map) ==
  [id \in DOMAIN responses |->
     IF \E k \in DOMAIN map : map[k] = id
     THEN [code |-> 500, body |-> "inference failed", sets |-> responses[id].sets + 1]
     ELSE responses[id]]

\* lines 150-154: both handlers only log
InferenceCatch(responses, map) == responses

Min(S) == CHOOSE x \in S : \A y \in S : x <= y

\* (*mapping_json_)[key] on a non-const folly::dynamic object: a missing key
\* is inserted with a null value, as std::map::operator[] does
Subscript(json, key) ==
  IF HasKey(json.doc, key)
  THEN [json |-> json, value |-> ValueOf(json.doc, key)]
  ELSE [json |-> [json EXCEPT !.doc = @ \cup { <<key, JsonNull>> }], value |-> JsonNull]

\* folly::dynamic::asString: TypeError (a std::runtime_error) on null
AsString(value) ==
  IF value.type = "string" THEN [outcome |-> "returned", text |-> value.text]
  ELSE [outcome |-> "runtime_error", text |-> ""]

(***************************************************************************)
(* Initial state: a constructed handler, nothing loaded.                   *)
(***************************************************************************)
Init ==
  /\ pc = "load"
  /\ model_dir \in [index_to_name : IndexToNameFiles, config : ConfigFiles,
                    artifact_ok : BOOLEAN]
  /\ device \in {"cpu", "cuda"}
  /\ mapping_json_ = NullJson
  /\ config_json_ = NullJson
  /\ runner = "none"
  /\ request_batch = <<>>
  /\ next = 1
  /\ batch_ivalue = <<>>
  /\ idx = 0
  /\ idx_first = <<>>
  /\ idx_second = <<>>
  /\ response_batch = <<>>
  /\ inference_out = NoValue
  /\ visited = {}

(***************************************************************************)
(* LoadModel, lines 24-61.                                                 *)
(***************************************************************************)
LoadModel ==
  /\ pc = "load"
  /\ LET map == LoadJsonFile(model_dir.index_to_name)
         config == LoadJsonFile(model_dir.config)
         path == GetJsonValue(config.json, "model_so_path")
     IN IF map.outcome # "returned"
        THEN /\ pc' = IF map.outcome = "terminate" THEN "terminated" ELSE "load_threw"
             /\ UNCHANGED <<mapping_json_, config_json_, runner>>
        ELSE /\ mapping_json_' = map.json
             /\ IF config.outcome # "returned"
                THEN /\ pc' = IF config.outcome = "terminate"
                              THEN "terminated" ELSE "load_threw"
                     /\ UNCHANGED <<config_json_, runner>>
                ELSE /\ config_json_' = config.json
                     /\ IF path.outcome # "returned"
                        THEN /\ pc' = "terminated"
                             /\ UNCHANGED runner
                        ELSE IF model_dir.artifact_ok
                        THEN /\ pc' = "loaded"
                             /\ runner' = device
                        ELSE /\ pc' = "load_threw"
                             /\ UNCHANGED runner
  /\ UNCHANGED <<model_dir, device, request_batch, next, batch_ivalue, idx,
                 idx_first, idx_second, response_batch, inference_out, visited>>

(***************************************************************************)
(* Preprocess, lines 63-132.                                               *)
(***************************************************************************)
PreprocessEnter ==
  /\ pc = "loaded"
  /\ request_batch' \in SeqsUpTo(RequestSpace, MaxBatch)
  /\ batch_ivalue' = <<>>
  /\ idx' = 0
  /\ next' = 1
  /\ pc' = "preprocess"
  /\ UNCHANGED <<model_dir, device, mapping_json_, config_json_, runner,
                 idx_first, idx_second, response_batch, inference_out, visited>>

PreprocessRequest(oob, reused) ==
  /\ pc = "preprocess"
  /\ next <= Len(request_batch)
  /\ LET id == RequestId(next)
         s == PreprocessOne(Locals, id, request_batch[next], oob, reused)
     IN /\ batch_ivalue' = s.batch_ivalue
        /\ idx' = s.idx
        /\ idx_second' = s.idx_second
        /\ response_batch' = s.response_batch
        /\ idx_first' = Append(idx_first, id)
  /\ next' = next + 1
  /\ UNCHANGED <<pc, model_dir, device, mapping_json_, config_json_, runner,
                 request_batch, inference_out, visited>>

PreprocessReturn ==
  /\ pc = "preprocess"
  /\ next > Len(request_batch)
  /\ pc' = "inference"
  /\ UNCHANGED <<model_dir, device, mapping_json_, config_json_, runner,
                 request_batch, next, batch_ivalue, idx, idx_first, idx_second,
                 response_batch, inference_out, visited>>

(***************************************************************************)
(* Inference, lines 134-155.  When runner->run throws, the handlers log    *)
(* and control reaches the end of a function that returns c10::IValue      *)
(* without a return statement: the caller gets an indeterminate value, or  *)
(* the process traps.                                                      *)
(***************************************************************************)
InferenceReturns ==
  /\ pc = "inference"
  /\ \E rows \in [1..Len(batch_ivalue) -> ArgmaxValues] :
       inference_out' = Tensor(rows)
  /\ pc' = "postprocess_enter"
  /\ UNCHANGED <<model_dir, device, mapping_json_, config_json_, runner,
                 request_batch, next, batch_ivalue, idx, idx_first, idx_second,
                 response_batch, visited>>

InferenceRunnerThrows ==
  /\ pc = "inference"
  /\ response_batch' = InferenceCatch(response_batch, idx_second)
  /\ \/ /\ inference_out' = Indeterminate
        /\ pc' = "postprocess_enter"
     \/ /\ inference_out' = inference_out
        /\ pc' = "crashed"
  /\ UNCHANGED <<model_dir, device, mapping_json_, config_json_, runner,
                 request_batch, next, batch_ivalue, idx, idx_first, idx_second,
                 visited>>

(***************************************************************************)
(* Postprocess, lines 157-189.                                             *)
(***************************************************************************)
\* line 161, outside every try block
PostprocessEnter ==
  /\ pc = "postprocess_enter"
  /\ \/ /\ inference_out.kind = "tensor"
        /\ pc' = "postprocess"
     \/ /\ inference_out.kind # "tensor"
        /\ pc' \in {"postprocess_threw", "crashed"}
  /\ UNCHANGED <<model_dir, device, mapping_json_, config_json_, runner,
                 request_batch, next, batch_ivalue, idx, idx_first, idx_second,
                 response_batch, inference_out, visited>>

\* lines 162-188, one entry of idx_to_req_id.second, in key order
PostprocessEntry ==
  /\ pc = "postprocess"
  /\ DOMAIN idx_second \ visited # {}
  /\ LET slot == Min(DOMAIN idx_second \ visited)
         id == idx_second[slot]
     IN /\ visited' = visited \cup {slot}
        /\ IF slot + 1 > Len(inference_out.argmax)
           THEN /\ response_batch' = SetResponse(response_batch, id, 500,
                                       "c10 error, failed to postprocess tensor")
                /\ UNCHANGED mapping_json_
           ELSE LET y_hat == inference_out.argmax[slot + 1]
                    predicted_idx == to_string(y_hat)
                    found == Subscript(mapping_json_, predicted_idx)
                    label == AsString(found.value)
                IN /\ mapping_json_' = found.json
                   /\ response_batch' =
                        IF label.outcome = "returned"
                        THEN SetResponse(response_batch, id, 200, label.text)
                        ELSE SetResponse(response_batch, id, 500,
                                         "runtime_error, failed to postprocess tensor")
  /\ UNCHANGED <<pc, model_dir, device, config_json_, runner, request_batch, next,
                 batch_ivalue, idx, idx_first, idx_second, inference_out>>

PostprocessReturn ==
  /\ pc = "postprocess"
  /\ DOMAIN idx_second \ visited = {}
  /\ pc' = "done"
  /\ UNCHANGED <<model_dir, device, mapping_json_, config_json_, runner,
                 request_batch, next, batch_ivalue, idx, idx_first, idx_second,
                 response_batch, inference_out, visited>>

Next ==
  \/ LoadModel
  \/ PreprocessEnter
  \/ \E oob \in OobInts, reused \in BOOLEAN : PreprocessRequest(oob, reused)
  \/ PreprocessReturn
  \/ InferenceReturns
  \/ InferenceRunnerThrows
  \/ PostprocessEnter
  \/ PostprocessEntry
  \/ PostprocessReturn

Spec == Init /\ [][Next]_vars

(***************************************************************************)
(* A long batch of requests that all pass preprocessing, on a loaded       *)
(* handler, with one fixed outcome for the reads of released memory: the   *)
(* behaviours of Preprocess in which the 8-bit slot counter runs through   *)
(* its whole range.                                                        *)
(***************************************************************************)
GoodRequest == Request({"data"}, {"data_type"}, "none", TokSeq(1))

InitLong ==
  /\ pc = "preprocess"
  /\ model_dir = [index_to_name |-> File(TRUE, TRUE, FullLabels),
                  config |-> File(TRUE, TRUE, { <<"model_so_path", "resnet.so">> }),
                  artifact_ok |-> TRUE]
  /\ device = "cpu"
  /\ mapping_json_ = Json(FullLabels)
  /\ config_json_ = Json({ <<"model_so_path", "resnet.so">> })
  /\ runner = "cpu"
  /\ request_batch = [i \in 1..LongBatch |-> GoodRequest]
  /\ next = 1
  /\ batch_ivalue = <<>>
  /\ idx = 0
  /\ idx_first = <<>>
  /\ idx_second = <<>>
  /\ response_batch = <<>>
  /\ inference_out = NoValue
  /\ visited = {}

NextLong ==
  \/ PreprocessRequest(0, TRUE)
  \/ PreprocessReturn

SpecLong == InitLong /\ [][NextLong]_vars

(***************************************************************************)
(* Vocabulary of the properties.                                           *)
(***************************************************************************)
\* Requests 1..next-1 have been through the Preprocess loop.
Processed == 1..(next - 1)

Failing(request) == ~EmptyPayload(request) /\ request.fault # "none"
Accepted(request) == ~EmptyPayload(request) /\ request.fault = "none"
MissingBothFields(request) == request.parameters \cap {"data", "body"} = {}

\* Ids of the processed requests that produced a row, in batch order.
AcceptedIds ==
  SelectSeq([i \in Processed |-> RequestId(i)],
            LAMBDA id : Accepted(request_batch[id]))

Referenced(id) == \E k \in DOMAIN idx_second : idx_second[k] = id

Terminal(response) == response.sets = 1 /\ response.code \in {200, 400, 500}
Pending(response) == response.sets = 0

\* The row the specification describes for token sequence t: t, then padId.
PaddedRow(t) ==
  [j \in 1..max_length_ |-> Int64(IF j <= Len(t) THEN t[j] ELSE pad_id, 0)]

\* Preprocess over a list of <<id, request>> pairs from empty locals, every
\* buffer read back as it was written.
RECURSIVE PreprocessAll(_, _)
PreprocessAll(s, pairs) ==
  IF pairs = <<>> THEN s
  ELSE PreprocessAll(PreprocessOne(s, Head(pairs)[1], Head(pairs)[2], 0, FALSE),
                     Tail(pairs))

EmptyLocals == [batch_ivalue |-> <<>>, idx |-> 0, idx_second |-> <<>>,
                response_batch |-> <<>>]

BatchPairs == [i \in 1..Len(request_batch) |-> <<RequestId(i), request_batch[i]>>]
WithoutFailing == SelectSeq(BatchPairs, LAMBDA p : ~Failing(p[2]))

(***************************************************************************)
(* C1: when a Preprocess -> Inference -> Postprocess cycle has ended,      *)
(* every request of the batch has a response that was set exactly once,    *)
(* with status 200, 400 or 500.                                            *)
(***************************************************************************)
C1_EveryRequestAnswered ==
  pc \in {"done", "postprocess_threw"} =>
    \A i \in 1..Len(request_batch) :
      /\ RequestId(i) \in DOMAIN response_batch
      /\ Terminal(response_batch[RequestId(i)])

(***************************************************************************)
(* C2: a processed request with neither "data" nor "body" has status 400   *)
(* and no entry of idx_to_req_id.second refers to it.                      *)
(***************************************************************************)
C2_MissingPayloadIs400 ==
  \A i \in Processed :
    MissingBothFields(request_batch[i]) =>
      /\ response_batch[RequestId(i)].code = 400
      /\ ~Referenced(RequestId(i))

(***************************************************************************)
(* C3: the row of a request whose token sequence t is no longer than       *)
(* max_length_ is t followed by pad_id up to max_length_.                  *)
(***************************************************************************)
C3_RowIsPaddedTokens ==
  pc \in {"preprocess", "inference"} =>
    \A k \in 1..Len(batch_ivalue) :
      LET t == request_batch[AcceptedIds[k]].tokens
      IN Len(t) <= max_length_ => batch_ivalue[k] = PaddedRow(t)

\* One iteration of the Postprocess loop, as C4 describes it.
C4_Step ==
  (pc = "postprocess" /\ visited' # visited) =>
    LET slot == CHOOSE k \in visited' \ visited : TRUE
        id == idx_second[slot]
        key == to_string(inference_out.argmax[slot + 1])
    IN IF HasKey(mapping_json_.doc, key)
       THEN /\ response_batch'[id].code = 200
            /\ response_batch'[id].body = ValueOf(mapping_json_.doc, key).text
       ELSE /\ response_batch'[id].code = 500
            /\ pc' = "postprocess"

(***************************************************************************)
(* C4: a Postprocess iteration over entry (slot, id) with arg-max i sets   *)
(* the response of id to 200 with body LabelMap[str(i)] when the label map *)
(* contains str(i), and to 500, going on with the loop, when it does not.  *)
(***************************************************************************)
C4_LabelLookup == [][C4_Step]_vars

\* One iteration of the Preprocess loop on a failing request, and the
\* comparison with the batch that lacks the failing requests.
C5_Step ==
  (pc = "preprocess" /\ next' = next + 1 /\ Failing(request_batch[next])) =>
    /\ response_batch'[RequestId(next)].code = 500
    /\ response_batch'[RequestId(next)].sets = 1
    /\ \A id \in DOMAIN response_batch : response_batch'[id] = response_batch[id]
    /\ batch_ivalue' = batch_ivalue
    /\ idx_second' = idx_second
    /\ idx' = idx
    /\ pc' = "preprocess"

C5_SameAsWithout ==
  pc = "inference" =>
    LET all == PreprocessAll(EmptyLocals, BatchPairs)
        rest == PreprocessAll(EmptyLocals, WithoutFailing)
    IN /\ idx_second = all.idx_second
       /\ idx = all.idx
       /\ Len(batch_ivalue) = Len(all.batch_ivalue)
       /\ response_batch = all.response_batch
       /\ all.idx_second = rest.idx_second
       /\ all.idx = rest.idx
       /\ all.batch_ivalue = rest.batch_ivalue
       /\ \A id \in DOMAIN rest.response_batch :
            all.response_batch[id] = rest.response_batch[id]

(***************************************************************************)
(* C5: a request on which decoding or tokenizing throws gets status 500,   *)
(* adds no row, no entry of idx_to_req_id.second and does not move the     *)
(* slot counter, the loop goes on, and after Preprocess the rows, the      *)
(* slot map, the slot counter and the responses of the other requests are  *)
(* those of the same batch without the failing requests.                   *)
(***************************************************************************)
C5_FailureIsolated == [][C5_Step]_vars /\ []C5_SameAsWithout

C5_Witness ==
  /\ pc = "inference"
  /\ \E i, j \in Processed :
       /\ i < j
       /\ Failing(request_batch[i])
       /\ Accepted(request_batch[j])
       /\ response_batch[RequestId(i)].code = 500
       /\ Referenced(RequestId(j))

\* The three load failures C6 names.
LoadMustFail ==
  \/ ~model_dir.index_to_name.readable
  \/ ~model_dir.config.readable
  \/ /\ model_dir.config.valid
     /\ ~HasKey(model_dir.config.doc, "model_so_path")

(***************************************************************************)
(* C6: when index_to_name.json or config.json cannot be read, or           *)
(* config.json has no key model_so_path, LoadModel ends by throwing to its *)
(* caller, and no runner exists.                                           *)
(***************************************************************************)
C6_LoadFailureReachesCaller ==
  (pc # "load" /\ LoadMustFail) => (pc = "load_threw" /\ runner = "none")

(***************************************************************************)
(* C7: after Preprocess, idx_to_req_id.second has one entry per row, and   *)
(* slot k holds the id of the request that produced row k.                 *)
(***************************************************************************)
C7_OneSlotPerRow ==
  pc = "inference" =>
    /\ DOMAIN idx_second = 0..(Len(batch_ivalue) - 1)
    /\ \A k \in 1..Len(batch_ivalue) : idx_second[k - 1] = AcceptedIds[k]

(***************************************************************************)
(* C8: once loaded, the label map equals the content of                    *)
(* index_to_name.json.                                                     *)
(***************************************************************************)
C8_LabelMapImmutable ==
  pc \notin {"load", "load_threw", "terminated"} =>
    mapping_json_ = Json(model_dir.index_to_name.doc)

\* The Inference call in which the runner throws, and the responses it finds.
C9_Step ==
  (pc = "inference" /\ pc' # "inference" /\ inference_out'.kind # "tensor") =>
    /\ response_batch' = response_batch
    /\ pc' \in {"postprocess_enter", "crashed"}

C9_AtInference ==
  pc = "inference" =>
    \A i \in 1..Len(request_batch) :
      IF Referenced(RequestId(i))
      THEN Pending(response_batch[RequestId(i)])
      ELSE response_batch[RequestId(i)].sets = 1
           /\ response_batch[RequestId(i)].code = 500

(***************************************************************************)
(* C9: when the runner throws inside Inference, Inference throws nothing   *)
(* to its caller and changes no response; the requests with a slot are     *)
(* pending when Inference starts, the others carry their one error         *)
(* response.                                                               *)
(***************************************************************************)
C9_InferenceFailureSilent == [][C9_Step]_vars /\ []C9_AtInference

C9_Witness ==
  /\ pc = "postprocess_enter"
  /\ inference_out.kind = "indeterminate"
  /\ \E i, j \in 1..Len(request_batch) :
       /\ Referenced(RequestId(i))
       /\ Pending(response_batch[RequestId(i)])
       /\ ~Referenced(RequestId(j))
       /\ response_batch[RequestId(j)].code = 500

\* Row lengths, and one iteration of the Preprocess loop on an oversized request.
C10_RowLengths ==
  \A k \in 1..Len(batch_ivalue) : Len(batch_ivalue[k]) = max_length_

C10_Step ==
  (/\ pc = "preprocess"
   /\ next' = next + 1
   /\ Accepted(request_batch[next])
   /\ Len(request_batch[next].tokens) > max_length_) =>
    /\ Len(batch_ivalue') = Len(batch_ivalue) + 1
    /\ Len(batch_ivalue'[Len(batch_ivalue')]) = max_length_
    /\ idx \in DOMAIN idx_second'
    /\ idx_second'[idx] = RequestId(next)
    /\ Pending(response_batch'[RequestId(next)])

(***************************************************************************)
(* C10: every row of the batch tensor has max_length_ elements, and a      *)
(* request with more than max_length_ tokens gets its row and its entry in *)
(* idx_to_req_id.second, and no response is set for it in Preprocess.      *)
(***************************************************************************)
C10_FixedLengthRows == []C10_RowLengths /\ [][C10_Step]_vars

C10_Witness ==
  /\ pc = "inference"
  /\ \E i \in Processed :
       /\ Accepted(request_batch[i])
       /\ Len(request_batch[i].tokens) > max_length_
       /\ Referenced(RequestId(i))
       /\ Pending(response_batch[RequestId(i)])
       /\ Len(batch_ivalue) >= 1

====
